---- MODULE Spec2Model ----
(***************************************************************************)
(* Model of the Trees-and-Tents solver (src/src/main.rs): State::solve,    *)
(* State::fill_green, Backtrack::apply, Backtrack::mark_green and          *)
(* Backtrack::run.  One action per call / per iteration of run's loops.    *)
(***************************************************************************)
EXTENDS Integers, Sequences, FiniteSets, TLC

\* ---------------------------------------------------------------- bounds
\* side length of the square grid (State::dim)
Dim == 3
\* largest required count an input gives a row or a column
MaxCount == 2
\* most Tree cells of an input board
MaxTrees == 2
\* most cells an input board presets to Tent or Grass
MaxPreset == 1
\* largest sum of the required counts of the rows, and of the columns
MaxTotal == 3

\* u8 arithmetic of col_tents / row_tents
U8 == 256

\* ---------------------------------------------------------------- cells
Tree == "Tree"
Tent == "Tent"
Grass == "Grass"
Empty == "Empty"
Cell == {Tree, Tent, Grass, Empty}

Idx == 0 .. (Dim * Dim - 1)
Coord == 0 .. (Dim - 1)

\* State::index_to_xy
XOf(i) == i % Dim
YOf(i) == i \div Dim
\* x + y * dim (State::get_cell / set_cell / mark_green)
IndexOf(x, y) == x + y * Dim

VARIABLES
    pc,               \* "input" | "filled" | "run" | "done" | "panic" | "abort"
    cells,            \* State::cells
    col_tents,        \* State::col_tents
    row_tents,        \* State::row_tents
    tree_count,       \* Backtrack::tree_count
    tent_count,       \* Backtrack::tent_count
    todo,             \* Backtrack::todo
    cords_stack,      \* Backtrack::cords_stack
    backtrack_stack,  \* Backtrack::backtrack_stack
    input,            \* history: the State handed to solve
    snaps,            \* history: the state at each live choice point, before its pick
    rejected,         \* history: cells a backtrack has turned from tentative Tent to Grass
    leaves            \* history: the Tent cells at each moment run found todo empty

vars == <<pc, cells, col_tents, row_tents, tree_count, tent_count, todo,
          cords_stack, backtrack_stack, input, snaps, rejected, leaves>>

\* ---------------------------------------------------------------- helpers
Last(s) == s[Len(s)]
\* a count that always counts Tree cells (mutation of Count)
CountTrees(c, v) == Cardinality({i \in Idx : c[i] = Tree})
Count(c, v) == Cardinality({i \in Idx : c[i] = v})
RowCells(y) == {i \in Idx : YOf(i) = y}
ColCells(x) == {i \in Idx : XOf(i) = x}
TentsIn(c, S) == Cardinality({i \in S : c[i] = Tent})

\* the test for a Tree below left out (mutation of HasTreeNeighbour)
HasTreeNeighbourNotBelow(c, x, y) ==
    \/ x > 0 /\ c[IndexOf(x - 1, y)] = Tree
    \/ y > 0 /\ c[IndexOf(x, y - 1)] = Tree
    \/ x + 1 < Dim /\ c[IndexOf(x + 1, y)] = Tree

\* a test for a neighbour that is not Grass (mutation of HasTreeNeighbour)
HasNonGrassNeighbour(c, x, y) ==
    \/ x > 0 /\ c[IndexOf(x - 1, y)] # Grass
    \/ y > 0 /\ c[IndexOf(x, y - 1)] # Grass
    \/ x + 1 < Dim /\ c[IndexOf(x + 1, y)] # Grass
    \/ y + 1 < Dim /\ c[IndexOf(x, y + 1)] # Grass

\* the four orthogonal neighbours tested by fill_green, clipped at the edges
HasTreeNeighbour(c, x, y) ==
    \/ x > 0 /\ c[IndexOf(x - 1, y)] = Tree
    \/ y > 0 /\ c[IndexOf(x, y - 1)] = Tree
    \/ x + 1 < Dim /\ c[IndexOf(x + 1, y)] = Tree
    \/ y + 1 < Dim /\ c[IndexOf(x, y + 1)] = Tree

\* the first loop nest left out (mutation of FillNoTree)
FillNoTreeMissing(c) == c

\* fill_green, first loop nest: Empty cells without a Tree next to them
FillNoTree(c) ==
    [i \in Idx |->
        IF c[i] # Empty \/ HasTreeNeighbour(c, XOf(i), YOf(i)) THEN c[i] ELSE Grass]

\* fill_green, second loop: columns whose count is 0
FillCols(c, ct) ==
    [i \in Idx |-> IF ct[XOf(i)] = 0 /\ c[i] = Empty THEN Grass ELSE c[i]]

\* the third loop left out (mutation of FillRows)
FillRowsMissing(c, rt) == c

\* fill_green, third loop: rows whose count is 0
FillRows(c, rt) ==
    [i \in Idx |-> IF rt[YOf(i)] = 0 /\ c[i] = Empty THEN Grass ELSE c[i]]

fill_green(c, ct, rt) == FillRows(FillCols(FillNoTree(c), ct), rt)

\* ---------------------------------------------------------------- input
SubsetsUpTo(S, k) == {T \in SUBSET S : Cardinality(T) <= k}

\* the board with Tree on T, v on P and Empty elsewhere
BoardOf(T, P, v) ==
    [i \in Idx |-> IF i \in T THEN Tree ELSE IF i \in P THEN v ELSE Empty]

\* boards of Tree and Empty cells only
PlainBoards == {BoardOf(T, {}, Grass) : T \in SubsetsUpTo(Idx, MaxTrees)}

\* boards that also preset cells to Tent or to Grass
Boards ==
    UNION { UNION { {BoardOf(T, P, v) : v \in {Tent, Grass}}
                    : P \in SubsetsUpTo(Idx \ T, MaxPreset) }
            : T \in SubsetsUpTo(Idx, MaxTrees) }

RECURSIVE SumTo(_, _)
SumTo(f, n) == IF n < 0 THEN 0 ELSE f[n] + SumTo(f, n - 1)
SumOf(f) == SumTo(f, Dim - 1)

\* the required counts of the rows, or of the columns, of an input
Counts == {f \in [Coord -> 0 .. MaxCount] : SumOf(f) <= MaxTotal}

\* the State that from_str hands to solve, its board drawn from B
InitWith(B) ==
    /\ pc = "input"
    /\ cells \in B
    /\ col_tents \in Counts
    /\ row_tents \in Counts
    /\ tree_count = 0
    /\ tent_count = 0
    /\ todo = {}
    /\ cords_stack = <<>>
    /\ backtrack_stack = <<>>
    /\ input = [cells |-> cells, col_tents |-> col_tents, row_tents |-> row_tents]
    /\ snaps = <<>>
    /\ rejected = {}
    /\ leaves = {}

Init == InitWith(Boards)
InitPlain == InitWith(PlainBoards)

\* ---------------------------------------------------------------- solve
\* State::solve, first statement: self.fill_green()
FillGreen ==
    /\ pc = "input"
    /\ cells' = fill_green(cells, col_tents, row_tents)
    /\ pc' = "filled"
    /\ UNCHANGED <<col_tents, row_tents, tree_count, tent_count, todo,
                   cords_stack, backtrack_stack, input, snaps, rejected, leaves>>

\* history kept by every step that hands control to the loop of run: the set
\* of Tent cells is recorded when the step leaves todo empty
TentsOf(c) == {i \in Idx : c[i] = Tent}
LeafSeen ==
    leaves' = IF pc' = "run" /\ todo' = {}
              THEN leaves \cup {TentsOf(cells')} ELSE leaves

\* the collection started after the first cell (mutation of EmptyCells)
EmptyCellsAfterFirst(c) == {i \in Idx : c[i] = Empty /\ i > 0}

\* the indices apply collects into todo
EmptyCells(c) == {i \in Idx : c[i] = Empty}

\* Backtrack::apply up to the call of run
Apply ==
    /\ pc = "filled"
    /\ todo' = EmptyCells(cells)
    /\ tree_count' = Count(cells, Tree)
    /\ tent_count' = Count(cells, Tent)
    /\ cords_stack' = <<>>
    /\ backtrack_stack' = <<>>
    /\ pc' = "run"
    /\ UNCHANGED <<cells, col_tents, row_tents, input, snaps, rejected>>
    /\ LeafSeen

\* ---------------------------------------------------------------- run
\* u8 `-= 1` and `+= 1`: the value a build without overflow checks stores
Dec8(v) == (v + U8 - 1) % U8
\* a `+= 1` that is left out (mutation of Inc8)
Inc8Missing(v) == v
Inc8(v) == (v + 1) % U8

\* a mark_green without the test `if self.todo.remove(..)` (mutation of mark_green)
mark_green_unchecked(st, x, y) ==
    LET new_cord == IndexOf(x, y)
        Marked(s) ==
            [cells |-> [s.cells EXCEPT ![new_cord] = Grass],
             todo |-> s.todo \ {new_cord},
             cords_stack |-> Append(s.cords_stack, new_cord)]
    IN  CHOOSE r \in {Marked(s) : s \in {st}} : TRUE

\* a mark_green that does not write the cell (mutation of mark_green)
mark_green_no_write(st, x, y) ==
    LET new_cord == IndexOf(x, y)
        Marked(s) ==
            IF new_cord \in s.todo
            THEN [cells |-> s.cells,
                  todo |-> s.todo \ {new_cord},
                  cords_stack |-> Append(s.cords_stack, new_cord)]
            ELSE s
    IN  CHOOSE r \in {Marked(s) : s \in {st}} : TRUE

\* Backtrack::mark_green on the search part st = [cells, todo, cords_stack]
\* (s ranges over the one value of st, so st is evaluated once)
mark_green(st, x, y) ==
    LET new_cord == IndexOf(x, y)
        Marked(s) ==
            IF new_cord \in s.todo
            THEN [cells |-> [s.cells EXCEPT ![new_cord] = Grass],
                  todo |-> s.todo \ {new_cord},
                  cords_stack |-> Append(s.cords_stack, new_cord)]
            ELSE s
    IN  CHOOSE r \in {Marked(s) : s \in {st}} : TRUE

\* mark_green called for targets[k], targets[k + 1], ... in this order
RECURSIVE MarkFrom(_, _, _)
MarkFrom(st, targets, k) ==
    IF k > Len(targets) THEN st
    ELSE MarkFrom(mark_green(st, targets[k][1], targets[k][2]), targets, k + 1)

\* mark_green called for each <<x, y>> of a sequence, first to last
MarkEach(st, targets) == MarkFrom(st, targets, 1)

\* `for y in 0..self.dim { self.mark_green(x, y) }`
ColumnOf(x) == [k \in 1 .. Dim |-> <<x, k - 1>>]
\* `for x in 0..self.dim { self.mark_green(x, y) }`
RowOf(y) == [k \in 1 .. Dim |-> <<k - 1, y>>]

\* the dx / dy arrays [-1, 0, 1] of run
Offsets == <<-1, 0, 1>>

\* only the four orthogonal neighbours (mutation of Neighbours)
NeighboursOrthogonal(x, y) ==
    LET all == <<<<-1, 0>>, <<0, -1>>, <<0, 1>>, <<1, 0>>>>
        Kept(d) ==
            /\ ~(x + d[1] = Dim \/ x + d[1] = -1)
            /\ ~(y + d[2] = Dim \/ y + d[2] = -1)
        kept == SelectSeq(all, Kept)
    IN  [k \in 1 .. Len(kept) |-> <<x + kept[k][1], y + kept[k][2]>>]

\* the cells the dx/dy loop nest of run passes to mark_green, in its order
Neighbours(x, y) ==
    LET all == [k \in 1 .. 9 |->
                   <<Offsets[((k - 1) \div 3) + 1], Offsets[((k - 1) % 3) + 1]>>]
        Kept(d) ==
            /\ ~(x + d[1] = Dim \/ x + d[1] = -1)
            /\ ~(d[1] = 0 /\ d[2] = 0)
            /\ ~(y + d[2] = Dim \/ y + d[2] = -1)
        kept == SelectSeq(all, Kept)
    IN  [k \in 1 .. Len(kept) |-> <<x + kept[k][1], y + kept[k][2]>>]

\* the body of `while let Some(&cord) = self.todo.iter().next()`, for one cord
Place(cord) ==
    /\ pc = "run"
    /\ cord \in todo
    /\ LET x == XOf(cord)
           y == YOf(cord)
           pushed == Append(cords_stack, cord)
           st0 == [cells |-> [cells EXCEPT ![cord] = Tent],
                   todo |-> todo \ {cord},
                   cords_stack |-> pushed]
           ct == [col_tents EXCEPT ![x] = Dec8(col_tents[x])]
           st1 == IF ct[x] = 0 THEN MarkEach(st0, ColumnOf(x)) ELSE st0
           rt == [row_tents EXCEPT ![y] = Dec8(row_tents[y])]
           st2 == IF rt[y] = 0 THEN MarkEach(st1, RowOf(y)) ELSE st1
           st3 == MarkEach(st2, Neighbours(x, y))
           underflow == col_tents[x] = 0 \/ row_tents[y] = 0
       IN  /\ backtrack_stack' = Append(backtrack_stack, Len(pushed))
           /\ tent_count' = tent_count + 1
           /\ col_tents' = ct
           /\ row_tents' = rt
           /\ cells' = st3.cells
           /\ todo' = st3.todo
           /\ cords_stack' = st3.cords_stack
           \* a build with overflow checks panics on `-= 1` of a 0
           /\ pc' \in (IF underflow THEN {"abort", "run"} ELSE {"run"})
           /\ snaps' = Append(snaps, [cells |-> cells, col_tents |-> col_tents,
                                      row_tents |-> row_tents, tent_count |-> tent_count,
                                      todo |-> todo, cord |-> cord])
    /\ UNCHANGED <<tree_count, input, rejected>>
    /\ LeafSeen

\* a return taken while cells are still in todo (mutation of Return)
ReturnEarly ==
    /\ pc = "run"
    /\ tent_count = tree_count
    /\ pc' = "done"
    /\ UNCHANGED <<cells, col_tents, row_tents, tree_count, tent_count, todo,
                   cords_stack, backtrack_stack, input, snaps, rejected, leaves>>

\* `if self.tent_count == self.tree_count { return; }`, reached when todo is empty
Return ==
    /\ pc = "run"
    /\ todo = {}
    /\ tent_count = tree_count
    /\ pc' = "done"
    /\ UNCHANGED <<cells, col_tents, row_tents, tree_count, tent_count, todo,
                   cords_stack, backtrack_stack, input, snaps, rejected, leaves>>

Range(s) == {s[k] : k \in 1 .. Len(s)}

\* a drain that skips its first element (mutation of Drained)
DrainedButFirst(cs, i) == SubSeq(cs, i + 2, Len(cs))

\* a drain that starts at the tentative tent itself (mutation of Drained)
DrainedFromTent(cs, i) == SubSeq(cs, i, Len(cs))

\* a drain that yields nothing (mutation of Drained)
DrainedNothing(cs, i) == <<>>

\* `self.cords_stack.drain(i..)`: the elements removed, in order
Drained(cs, i) == SubSeq(cs, i + 1, Len(cs))

\* a backtrack that also reverts the tentative tent to Empty instead of
\* ruling it out (mutation of Backtrack)
BacktrackRetry ==
    /\ pc = "run"
    /\ todo = {}
    /\ tent_count # tree_count
    /\ backtrack_stack # <<>>
    /\ LET i == Last(backtrack_stack)
           drained == Drained(cords_stack, i - 1)
           cord == cords_stack[i]
           x == XOf(cord)
           y == YOf(cord)
       IN  /\ backtrack_stack' = SubSeq(backtrack_stack, 1, Len(backtrack_stack) - 1)
           /\ cords_stack' = SubSeq(cords_stack, 1, i - 1)
           /\ todo' = todo \cup Range(drained)
           /\ cells' = [j \in Idx |-> IF j \in Range(drained) THEN Empty ELSE cells[j]]
           /\ col_tents' = [col_tents EXCEPT ![x] = Inc8(col_tents[x])]
           /\ row_tents' = [row_tents EXCEPT ![y] = Inc8(row_tents[y])]
           /\ tent_count' = tent_count - 1
           /\ pc' = "run"
           /\ snaps' = SubSeq(snaps, 1, Len(snaps) - 1)
           /\ rejected' = rejected
    /\ UNCHANGED <<tree_count, input>>
    /\ LeafSeen

\* `if let Some(i) = self.backtrack_stack.pop() { ... }`
Backtrack ==
    /\ pc = "run"
    /\ todo = {}
    /\ tent_count # tree_count
    /\ backtrack_stack # <<>>
    /\ LET i == Last(backtrack_stack)
           drained == Drained(cords_stack, i)
           kept == SubSeq(cords_stack, 1, i)
           cord == Last(kept)
           x == XOf(cord)
           y == YOf(cord)
           reverted == [j \in Idx |-> IF j \in Range(drained) THEN Empty ELSE cells[j]]
       IN  IF i > Len(cords_stack) \/ i = 0 \/ tent_count = 0
           THEN \* drain out of range, unwrap of None, usize underflow
                /\ pc' = "abort"
                /\ UNCHANGED <<cells, col_tents, row_tents, tent_count, todo,
                               cords_stack, backtrack_stack, snaps, rejected, leaves>>
           ELSE /\ backtrack_stack' = SubSeq(backtrack_stack, 1, Len(backtrack_stack) - 1)
                /\ cords_stack' = kept
                /\ todo' = todo \cup Range(drained)
                /\ cells' = [reverted EXCEPT ![cord] = Grass]
                /\ col_tents' = [col_tents EXCEPT ![x] = Inc8(col_tents[x])]
                /\ row_tents' = [row_tents EXCEPT ![y] = Inc8(row_tents[y])]
                /\ tent_count' = tent_count - 1
                \* a build with overflow checks panics on `+= 1` of a 255
                /\ pc' \in (IF col_tents[x] = U8 - 1 \/ row_tents[y] = U8 - 1
                            THEN {"abort", "run"} ELSE {"run"})
                /\ snaps' = SubSeq(snaps, 1, Len(snaps) - 1)
                /\ rejected' = rejected \cup {cord}
                /\ LeafSeen
    /\ UNCHANGED <<tree_count, input>>

\* `else { panic!("No solution"); }`
NoSolution ==
    /\ pc = "run"
    /\ todo = {}
    /\ tent_count # tree_count
    /\ backtrack_stack = <<>>
    /\ pc' = "panic"
    /\ UNCHANGED <<cells, col_tents, row_tents, tree_count, tent_count, todo,
                   cords_stack, backtrack_stack, input, snaps, rejected, leaves>>

Next ==
    \/ FillGreen
    \/ Apply
    \/ \E cord \in Idx : Place(cord)
    \/ Return
    \/ Backtrack
    \/ NoSolution

Spec == Init /\ [][Next]_vars

\* solve on boards of Tree and Empty cells.  run is one sequential loop:
\* whenever a step is possible it is taken
PlainSpec == InitPlain /\ [][Next]_vars /\ WF_vars(Next)

TypeOK ==
    /\ pc \in {"input", "filled", "run", "done", "panic", "abort"}
    /\ cells \in [Idx -> Cell]
    /\ col_tents \in [Coord -> 0 .. U8 - 1]
    /\ row_tents \in [Coord -> 0 .. U8 - 1]
    /\ todo \subseteq Idx

\* ---------------------------------------------------------------- properties
Abs(n) == IF n < 0 THEN -n ELSE n
KingAdjacent(a, b) ==
    a # b /\ Abs(XOf(a) - XOf(b)) <= 1 /\ Abs(YOf(a) - YOf(b)) <= 1
OrthAdjacent(a, b) ==
    Abs(XOf(a) - XOf(b)) + Abs(YOf(a) - YOf(b)) = 1
TentCells == {i \in Idx : cells[i] = Tent}
InputHasNoTent == \A i \in Idx : input.cells[i] # Tent
\* the tentative tents of the live choice points
Placed == {cords_stack[backtrack_stack[k]] : k \in 1 .. Len(backtrack_stack)}

\* C1: on an input without Tent cells no two Tent cells are king-move adjacent,
\* in every state run reaches and so in the board solve returns
C1_NoAdjacentTents ==
    InputHasNoTent =>
        \A a \in TentCells : \A b \in TentCells : ~KingAdjacent(a, b)
C1_Witness ==
    InputHasNoTent /\ pc = "done" /\ Cardinality(TentCells) >= 2 /\ rejected # {}

\* C2: in a returned board every row and column holds exactly its required
\* number of Tent cells
C2_CountsExact ==
    pc = "done" =>
        /\ \A y \in Coord : TentsIn(cells, RowCells(y)) = input.row_tents[y]
        /\ \A x \in Coord : TentsIn(cells, ColCells(x)) = input.col_tents[x]

\* C3: an input whose row sum, column sum and Tree count are not all equal
\* never makes solve return a board
Inconsistent ==
    \/ SumOf(input.row_tents) # SumOf(input.col_tents)
    \/ SumOf(input.row_tents) # Count(input.cells, Tree)
    \/ SumOf(input.col_tents) # Count(input.cells, Tree)
C3_InconsistentRejected == Inconsistent => pc # "done"

\* C4: in a returned board every Tree has exactly one orthogonally adjacent
\* Tent and every Tent exactly one orthogonally adjacent Tree
AdjacentWith(i, v) == {j \in Idx : OrthAdjacent(i, j) /\ cells[j] = v}
C4_Paired ==
    pc = "done" =>
        \A i \in Idx :
            /\ cells[i] = Tree => Cardinality(AdjacentWith(i, Tent)) = 1
            /\ cells[i] = Tent => Cardinality(AdjacentWith(i, Tree)) = 1

\* C5: when run returns no cell is Empty
C5_NoEmptyLeft == pc = "done" => \A i \in Idx : cells[i] # Empty
C5_Witness == pc = "done" /\ tent_count >= 2 /\ rejected # {}

\* C6: on every input, whatever cells are picked, run ends: it returns or it
\* reaches the "No solution" panic
C6_Terminates == <>(pc \in {"done", "panic"})
C6_Witness == pc = "panic" /\ Cardinality(rejected) >= 2

\* C7: on an input without Tent cells solve panics exactly when no set S of
\* cells Empty after fill_green has |S| = number of Trees, no two cells king-move
\* adjacent and at most the required count in each row and column; otherwise it
\* returns a board whose Tent cells are such a set
EmptyAfterFill ==
    {i \in Idx : fill_green(input.cells, input.col_tents, input.row_tents)[i] = Empty}
Feasible(S) ==
    /\ S \subseteq EmptyAfterFill
    /\ \A a \in S : \A b \in S : ~KingAdjacent(a, b)
    /\ \A y \in Coord : Cardinality(S \cap RowCells(y)) <= input.row_tents[y]
    /\ \A x \in Coord : Cardinality(S \cap ColCells(x)) <= input.col_tents[x]
    /\ Cardinality(S) = Count(input.cells, Tree)
SolutionExists == \E S \in SUBSET EmptyAfterFill : Feasible(S)
C7_Exhaustive ==
    /\ [](InputHasNoTent /\ pc = "panic" => ~SolutionExists)
    /\ [](InputHasNoTent /\ pc = "done" => Feasible(TentCells))
    /\ <>(pc \in {"done", "panic"})
C7_Witness ==
    /\ InputHasNoTent /\ pc = "done" /\ rejected # {}
    /\ Cardinality(TentCells) >= 2 /\ Feasible(TentCells)

\* C8: a backtrack restores cells, row_tents, col_tents, tent_count and todo to
\* their values before the popped choice point's cell was picked, except that
\* the cell is Grass and is not in todo
IsBacktrackStep ==
    /\ pc = "run" /\ todo = {} /\ tent_count # tree_count
    /\ backtrack_stack # <<>> /\ pc' = "run"
C8_ExactUndo ==
    [][IsBacktrackStep =>
         LET s == Last(snaps) IN
         /\ cells' = [s.cells EXCEPT ![s.cord] = Grass]
         /\ row_tents' = s.row_tents
         /\ col_tents' = s.col_tents
         /\ tent_count' = s.tent_count
         /\ todo' = s.todo \ {s.cord}]_vars
C8_Witness ==
    pc = "run" /\ Cardinality(rejected) >= 2 /\ backtrack_stack # <<>> /\ todo # {}

\* C9: between steps every frontier cell lies in a row and a column whose
\* remaining count is at least 1, so no decrement is applied to a 0
C9_FrontierHasRoom ==
    /\ pc = "run" =>
         \A c \in todo : row_tents[YOf(c)] >= 1 /\ col_tents[XOf(c)] >= 1
    /\ pc # "abort"
C9_Witness ==
    /\ pc = "run" /\ rejected # {} /\ backtrack_stack # <<>>
    /\ \E c \in todo : row_tents[YOf(c)] = 1 /\ col_tents[XOf(c)] = 1

\* C10: between steps each remaining count is the required count minus the
\* tents the search has placed in that row / column and not retracted
C10_RemainingCounts ==
    pc = "run" =>
        /\ \A y \in Coord :
             row_tents[y] = input.row_tents[y] - Cardinality(Placed \cap RowCells(y))
        /\ \A x \in Coord :
             col_tents[x] = input.col_tents[x] - Cardinality(Placed \cap ColCells(x))
C10_Witness ==
    pc = "run" /\ rejected # {} /\ Cardinality(Placed) >= 2

\* C11: between steps todo is exactly the set of indices of the Empty cells
C11_FrontierIsEmptyCells ==
    pc = "run" => todo = {i \in Idx : cells[i] = Empty}
C11_Witness ==
    /\ pc = "run" /\ rejected # {} /\ Cardinality(todo) >= 2
    /\ todo = {i \in Idx : cells[i] = Empty}

\* C12: between steps tent_count is the number of Tent cells of the board
C12_TentCount == pc = "run" => tent_count = Cardinality(TentCells)
C12_Witness ==
    /\ pc = "run" /\ rejected # {} /\ ~InputHasNoTent
    /\ tent_count >= 2 /\ tent_count = Cardinality(TentCells)

\* C13: on an input without Tent cells every Tent cell has a Tree above, below,
\* left or right of it, in every state solve reaches
HasOrthTree(i) == \E j \in Idx : OrthAdjacent(i, j) /\ cells[j] = Tree
C13_TentsTouchTrees ==
    InputHasNoTent => \A i \in TentCells : HasOrthTree(i)
C13_Witness ==
    /\ InputHasNoTent /\ pc = "run" /\ Cardinality(rejected) >= 2
    /\ TentCells # {} /\ \A i \in TentCells : HasOrthTree(i)

\* C16: fill_green turns a cell to Grass exactly when it is Empty and has no
\* orthogonally adjacent Tree or lies in a row or column of count 0; it changes
\* no other cell and no counter, so every cell it leaves Empty touches a Tree
\* and lies in a row and a column of count >= 1
TurnsGrass(i) ==
    /\ cells[i] = Empty
    /\ \/ ~HasOrthTree(i)
       \/ row_tents[YOf(i)] = 0
       \/ col_tents[XOf(i)] = 0
C16_FillGreenExact ==
    [][pc = "input" =>
         /\ \A i \in Idx : cells'[i] = (IF TurnsGrass(i) THEN Grass ELSE cells[i])
         /\ row_tents' = row_tents
         /\ col_tents' = col_tents
         /\ \A i \in Idx :
              cells'[i] = Empty =>
                  /\ \E j \in Idx : OrthAdjacent(i, j) /\ cells'[j] = Tree
                  /\ row_tents'[YOf(i)] >= 1
                  /\ col_tents'[XOf(i)] >= 1]_vars
C16_Witness ==
    /\ pc = "filled"
    /\ \E i \in Idx : input.cells[i] = Empty /\ cells[i] = Grass /\ HasOrthTree(i)
    /\ \E i \in Idx : input.cells[i] = Empty /\ cells[i] = Grass /\ ~HasOrthTree(i)
    /\ \E i \in Idx : cells[i] = Empty
    /\ \E i \in Idx : input.cells[i] = Tent /\ cells[i] = Tent

\* C17: fill_green applied to the state it produced changes nothing
C17_FillGreenIdempotent ==
    pc = "filled" => fill_green(cells, col_tents, row_tents) = cells
C17_Witness ==
    /\ pc = "filled" /\ cells # input.cells
    /\ Cardinality({i \in Idx : cells[i] = Empty}) >= 2
    /\ \E i \in Idx : input.cells[i] = Grass

\* C18: a cell that is Tree, Grass or Tent when apply starts is never changed
\* by the search; only cells Empty at that point change
StartCells == fill_green(input.cells, input.col_tents, input.row_tents)
C18_FixedCellsKept ==
    pc \in {"run", "done", "panic"} =>
        \A i \in Idx : StartCells[i] # Empty => cells[i] = StartCells[i]
C18_Witness ==
    /\ pc = "run" /\ rejected # {} /\ backtrack_stack # <<>>
    /\ \E i \in Idx : StartCells[i] = Tent /\ cells[i] = Tent
    /\ \E i \in Idx : StartCells[i] = Grass /\ cells[i] = Grass

\* C19: between steps cords_stack holds no index twice, backtrack_stack is
\* strictly increasing with entries in 1 .. len(cords_stack), the cell under
\* each entry is Tent and every other cell on cords_stack is Grass
C19_UndoLogWellFormed ==
    pc = "run" =>
        /\ \A a \in 1 .. Len(cords_stack) : \A b \in 1 .. Len(cords_stack) :
               a # b => cords_stack[a] # cords_stack[b]
        /\ \A k \in 1 .. Len(backtrack_stack) :
               /\ 1 <= backtrack_stack[k] /\ backtrack_stack[k] <= Len(cords_stack)
               /\ k > 1 => backtrack_stack[k - 1] < backtrack_stack[k]
        /\ \A p \in 1 .. Len(cords_stack) :
               cells[cords_stack[p]] =
                   (IF \E k \in 1 .. Len(backtrack_stack) : backtrack_stack[k] = p
                    THEN Tent ELSE Grass)
C19_Witness ==
    /\ pc = "run" /\ Len(backtrack_stack) >= 2 /\ rejected # {}
    /\ Len(cords_stack) > Last(backtrack_stack)
    /\ todo = {}

\* C14 as stated: a cell rejected by a backtrack is Grass in every later state
C14_RejectedStaysGrass == \A c \in rejected : cells[c] = Grass

\* C14 amended: a rejected cell that is Grass stays Grass in every step but a
\* backtrack that pops a choice point lying below it on cords_stack, and that
\* backtrack resets it to Empty
C14_RejectedUntilEarlierPop ==
    [][\A c \in rejected :
         (cells[c] = Grass /\ cells'[c] # Grass) =>
             /\ IsBacktrackStep
             /\ cells'[c] = Empty
             /\ c \in todo'
             /\ \E p \in 1 .. Len(cords_stack) :
                    p > Last(backtrack_stack) /\ cords_stack[p] = c]_vars
C14_Witness ==
    /\ pc = "run"
    /\ \E c \in rejected : cells[c] = Empty /\ c \in todo
    /\ \E c \in rejected : cells[c] = Grass

\* C15: no two moments at which todo is empty have the same set of Tent
\* cells: a step that leaves todo empty reaches a set of Tent cells that no
\* earlier such moment of the run had, whatever cells were picked
C15_NoBranchTwice ==
    [][(pc' = "run" /\ todo' = {}) => TentsOf(cells') \notin leaves]_vars
C15_Witness ==
    /\ pc = "run" /\ todo = {} /\ Cardinality(leaves) >= 4
    /\ Cardinality(rejected) >= 2 /\ TentCells \in leaves

====
